---- MODULE Spec2Model ----
(***************************************************************************)
(* Model of pyalgotrade/barfeed/dukascopyfeed.py: the Dukascopy tick       *)
(* parser (Feed.loadTicksFromFile) and the tick-to-bar aggregation         *)
(* (Feed.addBarsFromFile).  The code is Python 2: "/" on two ints is floor *)
(* division.                                                               *)
(*                                                                         *)
(* Representation of Python values:                                        *)
(*   None          the empty tuple <<>>, a value x that may be None <<x>>  *)
(*   float price   n / 100000.0 is kept as its whole part and its five     *)
(*                 digit fraction, [whole, frac], value whole+frac/100000  *)
(*   datetime      [ordinal, msec]: the day number and the millisecond of  *)
(*                 that day (datetime + timedelta normalises to this)      *)
(*   date string   [valid, ordinal]: whether strptime accepts it, and the  *)
(*                 day it names                                            *)
(***************************************************************************)
EXTENDS Integers, Sequences, FiniteSets, TLC

\* ------------------------------------------------------------------ bounds
MaxTicks == 3
MaxCalls == 2

\* ------------------------------------------------- pyalgotrade.bar.Frequency
TRADE == -1
SECOND == 1
MINUTE == 60
FIVE_MINUTES == 300
FIFTEEN_MINUTES == 900
THIRTY_MINUTES == 1800
HOUR == 3600
FOUR_HOURS == 14400
DAY == 86400

\* The list Feed.__init__ tests its frequency against.
SupportedFrequencies ==
    {TRADE, SECOND, MINUTE, FIVE_MINUTES, FIFTEEN_MINUTES, THIRTY_MINUTES,
     HOUR, FOUR_HOURS, DAY}

\* ------------------------------------------------------- program constants
RecordSize == 20
UnpackSize == 12
PriceScale == 100000
SyntheticVolume == 10000
MsecPerSecond == 1000
MsecPerDay == 86400000

None == <<>>
Some(x) == <<x>>
EmptyDict == [k \in {} |-> 0]

\* ------------------------------------------------------- Python arithmetic
\* int / int and int % int of Python 2 (floor division, the remainder has the
\* sign of the divisor); b # 0.
PyFloorDiv(a, b) == IF b > 0 THEN a \div b ELSE (0 - a) \div (0 - b)
PyMod(a, b) == a - b * PyFloorDiv(a, b)

\* ------------------------------------------------------------ float prices
Price(n) == [whole |-> n \div PriceScale, frac |-> n % PriceScale]
PriceLE(p, q) == p.whole < q.whole \/ (p.whole = q.whole /\ p.frac <= q.frac)
PyMin(p, q) == IF PriceLE(q, p) /\ q # p THEN q ELSE p
PyMax(p, q) == IF PriceLE(p, q) /\ q # p THEN q ELSE p

\* ---------------------------------------------------------------- datetime
StrpTimeOk(date) == date.valid
StrpTime(date) == [ordinal |-> date.ordinal, msec |-> 0]
DateTimeAdd(dt, ms) ==
    [ordinal |-> dt.ordinal + (dt.msec + ms) \div MsecPerDay,
     msec |-> (dt.msec + ms) % MsecPerDay]
DateTimeLE(a, b) ==
    a.ordinal < b.ordinal \/ (a.ordinal = b.ordinal /\ a.msec <= b.msec)
DateTimeLT(a, b) == DateTimeLE(a, b) /\ a # b

\* ------------------------------------------------------------ struct '>iii'
\* UnpackInt reading the four bytes in little-endian order.
UnpackInt_LittleEndian(b) ==
    (IF b[4] >= 128 THEN b[4] - 256 ELSE b[4]) * 16777216
        + b[3] * 65536 + b[2] * 256 + b[1]

\* One big-endian signed 32 bit integer from four bytes.
UnpackInt(b) ==
    (IF b[1] >= 128 THEN b[1] - 256 ELSE b[1]) * 16777216
        + b[2] * 65536 + b[3] * 256 + b[4]

\* struct.unpack_from('>iii', tick_bytes) and the dict built from it.
UnpackTick(tick_bytes) ==
    LET time_msec == UnpackInt(SubSeq(tick_bytes, 1, 4))
        ask == UnpackInt(SubSeq(tick_bytes, 5, 8))
        bid == UnpackInt(SubSeq(tick_bytes, 9, 12))
    IN  [ask |-> Price(ask), bid |-> Price(bid), time |-> time_msec]

\* FileRead reading only the bytes the struct format consumes.
FileRead_StructSize(data, pos) ==
    SubSeq(data, pos + 1, IF pos + UnpackSize <= Len(data)
                          THEN pos + UnpackSize ELSE Len(data))

\* f.read(20) at offset pos of a file holding the bytes data.
FileRead(data, pos) ==
    SubSeq(data, pos + 1, IF pos + RecordSize <= Len(data)
                          THEN pos + RecordSize ELSE Len(data))

\* ------------------------------------------------------------------ inputs
\* The bytes struct.pack('>i', n) writes: the inverse of UnpackInt, used only
\* to write the tick files the feed is given.
PackInt(n) ==
    <<(n \div 16777216) % 256, (n \div 65536) % 256, (n \div 256) % 256, n % 256>>

TimeInputs == {-1, 1000, 60000}
BidInputs == {109000, 110000}
Unknown0 == <<0, 0, 0, 0, 0, 0, 0, 0>>
Unknown1 == <<63, 128, 0, 0, 64, 16, 0, 255>>

MakeRecord(t, ask, bid, unknown) ==
    PackInt(t) \o PackInt(ask) \o PackInt(bid) \o unknown

\* One record per time and bid, and one more that repeats a time and a bid
\* with another ask and other trailing bytes.
RecordInputs ==
    {MakeRecord(t, 110010, b, Unknown0) : t \in TimeInputs, b \in BidInputs}
        \cup {MakeRecord(1000, 110025, 109000, Unknown1)}

RECURSIVE RecordSeqs(_)
\* The concatenations of exactly n records.
RecordSeqs(n) ==
    IF n = 0 THEN {<<>>}
    ELSE {s \o r : s \in RecordSeqs(n - 1), r \in RecordInputs}

WholeFiles == UNION {RecordSeqs(n) : n \in 0..MaxTicks}
\* Files cut short inside their last record, after no or one whole record.
TruncatedFiles ==
    LET r == MakeRecord(1000, 110025, 109000, Unknown1)
    IN  {s \o SubSeq(r, 1, k) : s \in {<<>>, r}, k \in 1..(RecordSize - 1)}
FileInputs == WholeFiles \cup TruncatedFiles

DateInputs ==
    {[valid |-> TRUE, ordinal |-> 735600], [valid |-> FALSE, ordinal |-> 0]}
TimezoneInputs == {None, Some("UTC")}
InstrumentInputs == {"EURUSD"}
\* Frequencies a caller may pass: supported ones and one that is not.
FrequencyInputs == {TRADE, SECOND, DAY, 0}
CtorFrequencyInputs == {DAY, 0}

\* ------------------------------------------------------------------- state
VARIABLES
    pc,          \* where the feed is: "new", "idle", "ctor_raised", "load",
                 \* "trade", "bucket", "returned", "raised"
    err,         \* the exception that ended the last call, or None
    feedFrequency, \* the frequency given to the constructor
    args,        \* the arguments of the current (or last) addBarsFromFile call
    calls,       \* the number of addBarsFromFile calls made
    pos,         \* loadTicksFromFile: offset of f in the file
    ticks,       \* loadTicksFromFile / addBarsFromFile: ticks
    frequency,   \* addBarsFromFile: the local frequency (rebound at line 140)
    bars,        \* addBarsFromFile: bars
    tickIdx,     \* the number of ticks the for loop has consumed
    lastBarNum,  \* addBarsFromFile: lastBarNum
    lastBar,     \* addBarsFromFile: lastBar
    registered   \* membf.BarFeed: the bars registered for each instrument

vars == <<pc, err, feedFrequency, args, calls, pos, ticks, frequency, bars,
          tickIdx, lastBarNum, lastBar, registered>>

locals == <<pos, ticks, frequency, bars, tickIdx, lastBarNum, lastBar>>

NoArgs ==
    [instrument |-> "", date |-> [valid |-> FALSE, ordinal |-> 0],
     data |-> <<>>, frequency |-> 0, timezone |-> None]

Init ==
    /\ pc = "new"
    /\ err = None
    /\ feedFrequency = None
    /\ args = NoArgs
    /\ calls = 0
    /\ pos = 0
    /\ ticks = <<>>
    /\ frequency = 0
    /\ bars = <<>>
    /\ tickIdx = 0
    /\ lastBarNum = None
    /\ lastBar = EmptyDict
    /\ registered = [i \in InstrumentInputs |-> <<>>]

\* ------------------------------------------------------------ Feed.__init__
Construct ==
    /\ pc = "new"
    /\ \E f \in CtorFrequencyInputs, tz \in TimezoneInputs :
        IF tz # None
        THEN /\ pc' = "ctor_raised"
             /\ err' = Some("Exception: timezone is not supported, sorry.")
             /\ UNCHANGED feedFrequency
        ELSE IF f \notin SupportedFrequencies
        THEN /\ pc' = "ctor_raised"
             /\ err' = Some("Exception: Invalid frequency.")
             /\ UNCHANGED feedFrequency
        ELSE /\ pc' = "idle"
             /\ err' = None
             /\ feedFrequency' = Some(f)
    /\ UNCHANGED <<args, calls, locals, registered>>

\* ------------------------------------------- Feed.addBarsFromFile: entry
\* The first call may name any file; a later call loads the same file for the
\* same instrument at the same frequency again, under any date.
CallInputs ==
    IF calls = 0
    THEN [instrument : InstrumentInputs, date : DateInputs, data : FileInputs,
          frequency : FrequencyInputs, timezone : TimezoneInputs]
    ELSE {[args EXCEPT !.date = d] : d \in DateInputs}

\* AddBarsFromFile with the tick list kept on the feed: a later call decodes
\* its ticks onto those of the call before it.
AddBarsFromFile_KeepsTicks ==
    /\ pc \in {"idle", "returned", "raised"}
    /\ calls < MaxCalls
    /\ \E a \in CallInputs :
        /\ args' = a
        /\ frequency' = a.frequency
        /\ IF a.timezone # None
           THEN /\ pc' = "raised"
                /\ err' = Some("Exception: timezone is not supported, sorry.")
           ELSE /\ pc' = "load"
                /\ err' = None
    /\ calls' = calls + 1
    /\ pos' = 0
    /\ bars' = <<>>
    /\ tickIdx' = 0
    /\ lastBarNum' = None
    /\ lastBar' = EmptyDict
    /\ UNCHANGED <<feedFrequency, registered, ticks>>

AddBarsFromFile ==
    /\ pc \in {"idle", "returned", "raised"}
    /\ calls < MaxCalls
    /\ \E a \in CallInputs :
        /\ args' = a
        /\ frequency' = a.frequency
        /\ IF a.timezone # None
           THEN /\ pc' = "raised"
                /\ err' = Some("Exception: timezone is not supported, sorry.")
           ELSE /\ pc' = "load"
                /\ err' = None
    /\ calls' = calls + 1
    /\ pos' = 0
    /\ ticks' = <<>>
    /\ bars' = <<>>
    /\ tickIdx' = 0
    /\ lastBarNum' = None
    /\ lastBar' = EmptyDict
    /\ UNCHANGED <<feedFrequency, registered>>

\* ------------------------------------------------- Feed.loadTicksFromFile
\* One iteration of the read loop that appends a tick.
LoadTick ==
    /\ pc = "load"
    /\ LET tick_bytes == FileRead(args.data, pos)
       IN  /\ Len(tick_bytes) >= UnpackSize
           /\ ticks' = Append(ticks, UnpackTick(tick_bytes))
           /\ pos' = pos + Len(tick_bytes)
    /\ UNCHANGED <<pc, err, feedFrequency, args, calls, frequency, bars,
                   tickIdx, lastBarNum, lastBar, registered>>

\* struct.unpack_from on fewer bytes than the format needs.
LoadRaise ==
    /\ pc = "load"
    /\ LET tick_bytes == FileRead(args.data, pos)
       IN  /\ Len(tick_bytes) > 0
           /\ Len(tick_bytes) < UnpackSize
           /\ pos' = pos + Len(tick_bytes)
    /\ pc' = "raised"
    /\ err' = Some("struct.error")
    /\ UNCHANGED <<feedFrequency, args, calls, ticks, frequency, bars,
                   tickIdx, lastBarNum, lastBar, registered>>

\* The read that returns no bytes ends the loop; loadTicksFromFile returns and
\* addBarsFromFile goes on to line 121..140.
LoadReturn ==
    /\ pc = "load"
    /\ Len(FileRead(args.data, pos)) = 0
    /\ bars' = <<>>
    /\ tickIdx' = 0
    /\ IF frequency = TRADE
       THEN /\ pc' = "trade"
            /\ UNCHANGED <<frequency, lastBarNum, lastBar>>
       ELSE /\ pc' = "bucket"
            /\ lastBarNum' = None
            /\ lastBar' = EmptyDict
            /\ frequency' = frequency * MsecPerSecond
    /\ UNCHANGED <<err, feedFrequency, args, calls, pos, ticks, registered>>

\* ---------------------------------------- Feed.addBarsFromFile: TRADE loop
\* TradeBar closing at the ask.
TradeBar_CloseFromAsk(date, tick, freq) ==
    [dateTime |-> DateTimeAdd(StrpTime(date), tick.time),
     open |-> tick.bid, high |-> tick.bid, low |-> tick.bid, close |-> tick.ask,
     volume |-> SyntheticVolume, adjClose |-> None, frequency |-> freq]

TradeBar(date, tick, freq) ==
    [dateTime |-> DateTimeAdd(StrpTime(date), tick.time),
     open |-> tick.bid, high |-> tick.bid, low |-> tick.bid, close |-> tick.bid,
     volume |-> SyntheticVolume, adjClose |-> None, frequency |-> freq]

TradeStep ==
    /\ pc = "trade"
    /\ tickIdx < Len(ticks)
    /\ StrpTimeOk(args.date)
    /\ bars' = Append(bars, TradeBar(args.date, ticks[tickIdx + 1], frequency))
    /\ tickIdx' = tickIdx + 1
    /\ UNCHANGED <<pc, err, feedFrequency, args, calls, pos, ticks, frequency,
                   lastBarNum, lastBar, registered>>

\* TradeRaise with the date parsed once, ahead of the loop.
TradeRaise_BeforeLoop ==
    /\ pc = "trade"
    /\ tickIdx <= Len(ticks)
    /\ ~StrpTimeOk(args.date)
    /\ pc' = "raised"
    /\ err' = Some("ValueError")
    /\ UNCHANGED <<feedFrequency, args, calls, locals, registered>>

\* strptime rejects the date string.
TradeRaise ==
    /\ pc = "trade"
    /\ tickIdx < Len(ticks)
    /\ ~StrpTimeOk(args.date)
    /\ pc' = "raised"
    /\ err' = Some("ValueError")
    /\ UNCHANGED <<feedFrequency, args, calls, locals, registered>>

\* ------------------------------------- Feed.addBarsFromFile: bucketed loop
\* NewBucket comparing the tick's time, not its bucket number.
NewBucket_RawTime(tick, freq, barNum) ==
    barNum = None \/ tick.time # barNum[1]

\* NewBucket that opens a bucket for every tick.
NewBucket_Always(tick, freq, barNum) == TRUE

\* The test of line 143.
NewBucket(tick, freq, barNum) ==
    barNum = None \/ PyFloorDiv(tick.time, freq) # barNum[1]

\* The bar built from the accumulator, lines 145..153.
FlushBar(acc, freq) ==
    [dateTime |-> acc.dateTime, open |-> acc.open_, high |-> acc.high,
     low |-> acc.low, close |-> acc.curr, volume |-> acc.volume,
     adjClose |-> acc.adjClose, frequency |-> freq]

\* OpenBucket starting high and low at the tick's bid while open is chained.
OpenBucket_HighLowFromTick(date, tick, freq, barNum, acc) ==
    LET open_ == IF barNum = None THEN tick.bid ELSE acc.curr
    IN  [dateTime |-> DateTimeAdd(StrpTime(date),
                                  tick.time - PyMod(tick.time, freq)),
         open_ |-> open_, high |-> tick.bid, low |-> tick.bid, curr |-> open_,
         volume |-> SyntheticVolume, adjClose |-> None]

\* OpenBucket opening every bucket at its own first bid.
OpenBucket_OpenFromTick(date, tick, freq, barNum, acc) ==
    LET open_ == tick.bid
    IN  [dateTime |-> DateTimeAdd(StrpTime(date),
                                  tick.time - PyMod(tick.time, freq)),
         open_ |-> open_, high |-> open_, low |-> open_, curr |-> open_,
         volume |-> SyntheticVolume, adjClose |-> None]

\* OpenBucket stamping the bucket with the time of its first tick.
OpenBucket_RawTimestamp(date, tick, freq, barNum, acc) ==
    LET open_ == IF barNum = None THEN tick.bid ELSE acc.curr
    IN  [dateTime |-> DateTimeAdd(StrpTime(date), tick.time),
         open_ |-> open_, high |-> open_, low |-> open_, curr |-> open_,
         volume |-> SyntheticVolume, adjClose |-> None]

\* The accumulator after lines 155..162.
OpenBucket(date, tick, freq, barNum, acc) ==
    LET open_ == IF barNum = None THEN tick.bid ELSE acc.curr
    IN  [dateTime |-> DateTimeAdd(StrpTime(date),
                                  tick.time - PyMod(tick.time, freq)),
         open_ |-> open_, high |-> open_, low |-> open_, curr |-> open_,
         volume |-> SyntheticVolume, adjClose |-> None]

\* UpdateBucket that never raises high.
UpdateBucket_NoHigh(acc, tick) ==
    LET curr == tick.bid
    IN  [acc EXCEPT !.curr = curr, !.low = PyMin(acc.low, curr)]

\* UpdateBucket adding the synthetic volume for every tick.
UpdateBucket_AddsVolume(acc, tick) ==
    LET curr == tick.bid
    IN  [acc EXCEPT !.curr = curr,
                    !.low = PyMin(acc.low, curr),
                    !.high = PyMax(acc.high, curr),
                    !.volume = acc.volume + SyntheticVolume]

\* UpdateBucket taking the high from the ask side of the quote.
UpdateBucket_HighFromAsk(acc, tick) ==
    LET curr == tick.bid
    IN  [acc EXCEPT !.curr = curr,
                    !.low = PyMin(acc.low, curr),
                    !.high = PyMax(acc.high, tick.ask)]

\* The accumulator after lines 165..167.
UpdateBucket(acc, tick) ==
    LET curr == tick.bid
    IN  [acc EXCEPT !.curr = curr,
                    !.low = PyMin(acc.low, curr),
                    !.high = PyMax(acc.high, curr)]

\* BucketStepError refusing a tick whose bucket lies before the open one.
BucketStepError_RejectsBackward(tick) ==
    IF lastBarNum # None /\ frequency = 0 THEN Some("ZeroDivisionError")
    ELSE IF ~NewBucket(tick, frequency, lastBarNum) THEN None
    ELSE IF ~StrpTimeOk(args.date) THEN Some("ValueError")
    ELSE IF frequency = 0 THEN Some("ZeroDivisionError")
    ELSE IF lastBarNum # None /\ PyFloorDiv(tick.time, frequency) < lastBarNum[1]
    THEN Some("ValueError")
    ELSE None

\* The loop body raises: the division of line 143 or the modulo of line 156
\* by a zero frequency, or strptime on the date of line 155.
BucketStepError(tick) ==
    IF lastBarNum # None /\ frequency = 0 THEN Some("ZeroDivisionError")
    ELSE IF ~NewBucket(tick, frequency, lastBarNum) THEN None
    ELSE IF ~StrpTimeOk(args.date) THEN Some("ValueError")
    ELSE IF frequency = 0 THEN Some("ZeroDivisionError")
    ELSE None

\* BucketStep handing each bar to the feed as soon as it is flushed.
BucketStep_RegistersFlushedBar ==
    /\ pc = "bucket"
    /\ tickIdx < Len(ticks)
    /\ LET tick == ticks[tickIdx + 1]
       IN  /\ BucketStepError(tick) = None
           /\ IF NewBucket(tick, frequency, lastBarNum)
              THEN /\ bars' = IF lastBarNum # None
                              THEN Append(bars, FlushBar(lastBar, frequency))
                              ELSE bars
                   /\ registered' =
                        IF lastBarNum # None
                        THEN [registered EXCEPT ![args.instrument] =
                                Append(@, FlushBar(lastBar, frequency))]
                        ELSE registered
                   /\ lastBar' = UpdateBucket(
                          OpenBucket(args.date, tick, frequency,
                                     lastBarNum, lastBar), tick)
                   /\ lastBarNum' = Some(PyFloorDiv(tick.time, frequency))
              ELSE /\ lastBar' = UpdateBucket(lastBar, tick)
                   /\ UNCHANGED <<bars, lastBarNum, registered>>
    /\ tickIdx' = tickIdx + 1
    /\ UNCHANGED <<pc, err, feedFrequency, args, calls, pos, ticks, frequency>>

BucketStep ==
    /\ pc = "bucket"
    /\ tickIdx < Len(ticks)
    /\ LET tick == ticks[tickIdx + 1]
       IN  /\ BucketStepError(tick) = None
           /\ IF NewBucket(tick, frequency, lastBarNum)
              THEN /\ bars' = IF lastBarNum # None
                              THEN Append(bars, FlushBar(lastBar, frequency))
                              ELSE bars
                   /\ lastBar' = UpdateBucket(
                          OpenBucket(args.date, tick, frequency,
                                     lastBarNum, lastBar), tick)
                   /\ lastBarNum' = Some(PyFloorDiv(tick.time, frequency))
              ELSE /\ lastBar' = UpdateBucket(lastBar, tick)
                   /\ UNCHANGED <<bars, lastBarNum>>
    /\ tickIdx' = tickIdx + 1
    /\ UNCHANGED <<pc, err, feedFrequency, args, calls, pos, ticks, frequency,
                   registered>>

BucketRaise ==
    /\ pc = "bucket"
    /\ tickIdx < Len(ticks)
    /\ BucketStepError(ticks[tickIdx + 1]) # None
    /\ pc' = "raised"
    /\ err' = BucketStepError(ticks[tickIdx + 1])
    /\ UNCHANGED <<feedFrequency, args, calls, locals, registered>>

\* ----------------------------------------- membf.BarFeed.addBarsFromSequence
AddBarsFromSequence(reg, instrument, newBars) ==
    [reg EXCEPT ![instrument] = reg[instrument] \o newBars]

\* Register flushing the bucket still open when the loop ended.
Register_FlushLast ==
    /\ pc \in {"trade", "bucket"}
    /\ tickIdx = Len(ticks)
    /\ bars' = IF pc = "bucket" /\ lastBarNum # None
               THEN Append(bars, FlushBar(lastBar, frequency))
               ELSE bars
    /\ registered' = AddBarsFromSequence(registered, args.instrument, bars')
    /\ pc' = "returned"
    /\ UNCHANGED <<err, feedFrequency, args, calls, pos, ticks, frequency,
                   tickIdx, lastBarNum, lastBar>>

\* Line 169, reached when the for loop has consumed every tick.
Register ==
    /\ pc \in {"trade", "bucket"}
    /\ tickIdx = Len(ticks)
    /\ registered' = AddBarsFromSequence(registered, args.instrument, bars)
    /\ pc' = "returned"
    /\ UNCHANGED <<err, feedFrequency, args, calls, locals>>

Next ==
    \/ Construct
    \/ AddBarsFromFile
    \/ LoadTick
    \/ LoadRaise
    \/ LoadReturn
    \/ TradeStep
    \/ TradeRaise
    \/ BucketStep
    \/ BucketRaise
    \/ Register

Spec == Init /\ [][Next]_vars

\* =================================================================== claims
\* The ticks the for loop has consumed so far.
Consumed == SubSeq(ticks, 1, tickIdx)

\* The call is in, or has returned from, the bucketed loop with a bucket width
\* that is a positive number of milliseconds.
InBucketed ==
    /\ pc \in {"bucket", "returned"}
    /\ args.frequency # TRADE
    /\ args.frequency > 0

InTrade == pc \in {"trade", "returned"} /\ args.frequency = TRADE

BucketWidth == args.frequency * 1000

BucketIndex(tick) == tick.time \div BucketWidth

RECURSIVE Runs(_)
\* The maximal runs of consecutive ticks that share a bucket index, in order.
Runs(ts) ==
    IF ts = <<>> THEN <<>>
    ELSE LET rest == Runs(Tail(ts))
         IN  IF rest # <<>> /\ BucketIndex(Head(rest)[1]) = BucketIndex(Head(ts))
             THEN <<(<<Head(ts)>> \o Head(rest))>> \o Tail(rest)
             ELSE <<(<<Head(ts)>>)>> \o rest

Bids(run) == {run[i].bid : i \in 1..Len(run)}
MaxPrice(S) == CHOOSE p \in S : \A q \in S : PriceLE(q, p)
MinPrice(S) == CHOOSE p \in S : \A q \in S : PriceLE(p, q)

\* C1: in bucketed aggregation the bucket open when the loop ends is not
\* emitted: after any number of ticks the bars are one fewer than the maximal
\* runs of consecutive ticks sharing a bucket index (none for no tick), so
\* ticks that all fall in one bucket give no bar.
C1_DroppedFinalBucket ==
    InBucketed =>
        Len(bars) = IF Consumed = <<>> THEN 0 ELSE Len(Runs(Consumed)) - 1

C1_Witness ==
    /\ InBucketed
    /\ pc = "returned"
    /\ Len(ticks) = 3
    /\ Len(Runs(ticks)) = 2
    /\ Len(bars) = 1

\* C2: at TRADE frequency the bars are one per tick in tick order; the i-th bar
\* has open = high = low = close = the i-th tick's bid, volume 10000 and a
\* timestamp time_offset_ms milliseconds after the base date.
C2_TradeOneBarPerTick ==
    InTrade =>
        /\ Len(bars) = tickIdx
        /\ pc = "returned" => Len(bars) = Len(ticks)
        /\ \A i \in 1..Len(bars) :
            /\ bars[i].open = ticks[i].bid
            /\ bars[i].high = ticks[i].bid
            /\ bars[i].low = ticks[i].bid
            /\ bars[i].close = ticks[i].bid
            /\ bars[i].volume = 10000
            /\ (bars[i].dateTime.ordinal - args.date.ordinal) * 86400000
                  + bars[i].dateTime.msec = ticks[i].time
            /\ bars[i].dateTime.msec \in 0..86399999

C2_Witness ==
    /\ InTrade
    /\ pc = "returned"
    /\ Len(bars) = 3
    /\ bars[1].close # bars[2].close
    /\ bars[1].dateTime.ordinal < bars[2].dateTime.ordinal

\* C3 as stated: every bar emitted by bucketed aggregation has close = the bid
\* of the last tick of its bucket, high = the greatest and low = the least bid
\* of the ticks of its bucket.
C3_HighLowOfBucketBids ==
    InBucketed =>
        \A i \in 1..Len(bars) :
            LET run == Runs(Consumed)[i]
            IN  /\ bars[i].close = run[Len(run)].bid
                /\ bars[i].high = MaxPrice(Bids(run))
                /\ bars[i].low = MinPrice(Bids(run))

\* C3 amended: every bar emitted by bucketed aggregation has close = the bid of
\* the last tick of its bucket, high = the greatest and low = the least of the
\* bar's open and the bids of the ticks of its bucket.
C3_HighLowOfOpenAndBucketBids ==
    InBucketed =>
        \A i \in 1..Len(bars) :
            LET run == Runs(Consumed)[i]
            IN  /\ bars[i].close = run[Len(run)].bid
                /\ bars[i].high = MaxPrice(Bids(run) \cup {bars[i].open})
                /\ bars[i].low = MinPrice(Bids(run) \cup {bars[i].open})

\* A bar whose high lies above every bid of its own bucket.
C3_Witness ==
    /\ InBucketed
    /\ \E i \in 1..Len(bars) :
        /\ bars[i].high # MaxPrice(Bids(Runs(Consumed)[i]))
        /\ bars[i].low # bars[i].high

\* loadTicksFromFile has returned its ticks to addBarsFromFile.
DecodeReturned ==
    \/ pc \in {"trade", "bucket", "returned"}
    \/ pc = "raised" /\ err \in {Some("ValueError"), Some("ZeroDivisionError")}

\* C4 as stated: a file whose length is not a multiple of 20 is never decoded
\* into ticks: the decode raises, whatever the length of the partial record.
C4_PartialRecordRejected ==
    DecodeReturned => Len(args.data) % 20 = 0

\* The i-th 20 byte record of the file.
FileRecord(i) == SubSeq(args.data, 20 * (i - 1) + 1, 20 * i)

\* C5: a file whose length is a multiple of 20 decodes to len/20 ticks, the
\* i-th of them read from the i-th 20 byte record.
C5_OneTickPerRecord ==
    (DecodeReturned /\ Len(args.data) % 20 = 0) =>
        /\ Len(ticks) * 20 = Len(args.data)
        /\ \A i \in 1..Len(ticks) : ticks[i] = UnpackTick(FileRecord(i))

C5_Witness ==
    /\ DecodeReturned
    /\ Len(args.data) = 60
    /\ Len(ticks) = 3
    /\ ticks[1] # ticks[2]
    /\ ticks[2] # ticks[3]

PriceWithin(p, low, high) == PriceLE(low, p) /\ PriceLE(p, high)

BarInRange(b) ==
    PriceWithin(b.open, b.low, b.high) /\ PriceWithin(b.close, b.low, b.high)

\* C6: while a bucket is open its low <= open <= high and low <= close <= high,
\* and so has every bar emitted by either loop or registered with the feed.
C6_OpenCloseWithinLowHigh ==
    /\ (pc = "bucket" /\ lastBarNum # None) =>
          /\ PriceWithin(lastBar.open_, lastBar.low, lastBar.high)
          /\ PriceWithin(lastBar.curr, lastBar.low, lastBar.high)
    /\ \A i \in 1..Len(bars) : BarInRange(bars[i])
    /\ \A n \in InstrumentInputs :
          \A i \in 1..Len(registered[n]) : BarInRange(registered[n][i])

\* An emitted bar whose open is its high and whose close is its low, with a
\* bucket open above the bar's range.
C6_Witness ==
    /\ pc = "bucket"
    /\ lastBarNum # None
    /\ lastBar.low # lastBar.high
    /\ \E i \in 1..Len(bars) :
          /\ bars[i].open = bars[i].high
          /\ bars[i].close = bars[i].low
          /\ bars[i].low # bars[i].high

TicksInTimeOrder ==
    \A i \in 1..(Len(ticks) - 1) : ticks[i].time <= ticks[i + 1].time

\* C7: for ticks in non-decreasing time order the bars' timestamps are
\* non-decreasing, and strictly increasing in bucketed aggregation.
C7_TimestampsOrdered ==
    (TicksInTimeOrder /\ pc \in {"trade", "bucket", "returned"}) =>
        \A i \in 1..(Len(bars) - 1) :
            /\ DateTimeLE(bars[i].dateTime, bars[i + 1].dateTime)
            /\ args.frequency # TRADE =>
                  DateTimeLT(bars[i].dateTime, bars[i + 1].dateTime)

\* Three ticks in time order that fall in three buckets.
C7_Witness ==
    /\ TicksInTimeOrder
    /\ pc = "returned"
    /\ args.frequency # TRADE
    /\ Len(ticks) = 3
    /\ Len(bars) = 2

\* C8 as stated: every bar carries the frequency the caller asked for: the
\* bucket size in seconds, or the TRADE marker.
C8_BarCarriesRequestedFrequency ==
    \A i \in 1..Len(bars) : bars[i].frequency = args.frequency

\* C9 as stated: a call whose frequency is not one of the nine supported ones
\* is rejected before any tick is decoded or aggregated: it decodes no tick
\* and does not return.
C9_UnsupportedFrequencyRejected ==
    (calls > 0 /\ args.frequency \notin SupportedFrequencies) =>
        /\ ticks = <<>>
        /\ pc \notin {"trade", "bucket", "returned"}

\* C10: the registered series changes in one step only, the one that ends a
\* call whose ticks have all been aggregated, and it changes by taking that
\* call's bars; a step that raises leaves it as it was.
C10_RegisteredOnlyAfterWholePass ==
    [][/\ registered' # registered =>
            /\ pc \in {"trade", "bucket"}
            /\ tickIdx = Len(ticks)
            /\ pc' = "returned"
            /\ bars' = bars
            /\ registered' = [registered EXCEPT ![args.instrument] = @ \o bars]
       /\ pc' = "raised" => registered' = registered
       /\ (pc' = "returned" /\ pc # "returned") =>
            registered' = [registered EXCEPT ![args.instrument] = @ \o bars]
      ]_vars

\* A second call that fails after decoding ticks, the bars of the first call
\* being registered.
C10_Witness ==
    /\ pc = "raised"
    /\ calls = 2
    /\ Len(ticks) > 0
    /\ registered[args.instrument] # <<>>

\* ------------------------------------------- one pass, from a fresh start
RECURSIVE FreshTicks(_, _)
\* The ticks a read loop started at offset p of the file decodes.
FreshTicks(data, p) ==
    LET tick_bytes == FileRead(data, p)
    IN  IF Len(tick_bytes) = 0 THEN <<>>
        ELSE <<UnpackTick(tick_bytes)>> \o FreshTicks(data, p + Len(tick_bytes))

RECURSIVE FreshBucketed(_, _, _, _)
\* The bars the bucketed loop appends to st.out for the ticks ts, from the
\* bucket number st.num and the accumulator st.acc.
FreshBucketed(ts, date, freq, st) ==
    IF ts = <<>> THEN st.out
    ELSE LET tick == Head(ts)
         IN  IF NewBucket(tick, freq, st.num)
             THEN FreshBucketed(Tail(ts), date, freq,
                    [num |-> Some(PyFloorDiv(tick.time, freq)),
                     acc |-> UpdateBucket(
                                OpenBucket(date, tick, freq, st.num, st.acc),
                                tick),
                     out |-> IF st.num # None
                             THEN Append(st.out, FlushBar(st.acc, freq))
                             ELSE st.out])
             ELSE FreshBucketed(Tail(ts), date, freq,
                    [st EXCEPT !.acc = UpdateBucket(st.acc, tick)])

\* The bars of one aggregation pass over ts that starts with no bucket open
\* and the frequency f as the caller gave it.
FreshPass(ts, date, f) ==
    IF f = TRADE
    THEN [i \in 1..Len(ts) |-> TradeBar(date, ts[i], f)]
    ELSE FreshBucketed(ts, date, f * 1000,
                       [num |-> None, acc |-> EmptyDict, out |-> <<>>])

\* C11: a call's bars are those of a pass started afresh on its own file, date
\* and frequency, whichever call it is; so loading the same file twice with
\* the same date and frequency registers the same bars twice.
C11_SecondPassSeesNoState ==
    pc = "returned" =>
        /\ bars = FreshPass(FreshTicks(args.data, 0), args.date, args.frequency)
        /\ (calls = 2 /\ Len(registered[args.instrument]) = 2 * Len(bars)) =>
              registered[args.instrument] = bars \o bars

\* The second of two bucketed passes over the same file has returned, and each
\* has registered the same two bars.
C11_Witness ==
    /\ pc = "returned"
    /\ calls = 2
    /\ args.frequency # TRADE
    /\ Len(bars) = 2
    /\ registered[args.instrument] = bars \o bars

\* C12: an empty file decodes to no tick, and no tick aggregates to no bar at
\* every frequency, TRADE or bucketed, without an error.
C12_EmptyGivesEmpty ==
    /\ (calls > 0 /\ args.data = <<>> /\ args.timezone = None) =>
          /\ pc \in {"load", "trade", "bucket", "returned"}
          /\ err = None
          /\ ticks = <<>>
          /\ bars = <<>>
    /\ (pc \in {"trade", "bucket", "returned"} /\ ticks = <<>>) => bars = <<>>
    /\ (pc = "raised" /\ DecodeReturned) => ticks # <<>>

\* A bucketed pass over an empty file has returned, under a date strptime
\* would reject.
C12_Witness ==
    /\ pc = "returned"
    /\ args.data = <<>>
    /\ args.frequency = DAY
    /\ ~args.date.valid
    /\ bars = <<>>

\* C13: in bucketed aggregation the first bar opens at the first tick's bid
\* and every later bar opens at the close of the bar emitted before it; the
\* bucket still open is chained in the same way.
C13_OpenChainedFromPreviousClose ==
    InBucketed =>
        /\ Len(bars) >= 1 => bars[1].open = ticks[1].bid
        /\ \A i \in 1..(Len(bars) - 1) : bars[i + 1].open = bars[i].close
        /\ (pc = "bucket" /\ lastBarNum # None) =>
              lastBar.open_ = IF bars = <<>> THEN ticks[1].bid
                              ELSE bars[Len(bars)].close

\* A second bar that opens away from the first bid of its own bucket.
C13_Witness ==
    /\ InBucketed
    /\ Len(bars) = 2
    /\ bars[2].open = bars[1].close
    /\ bars[2].open # Runs(Consumed)[2][1].bid

\* The milliseconds from the start of the call's date to a datetime.
OffsetMs(dt) == (dt.ordinal - args.date.ordinal) * 86400000 + dt.msec

\* C15: every bar of bucketed aggregation is stamped date + bucket index x
\* bucket width; that offset is t - (t mod width) for the first tick t of the
\* bucket, a multiple of the width, and every tick of the bucket lies in
\* [offset, offset + width).
C15_TimestampIsBucketStart ==
    InBucketed =>
        \A i \in 1..Len(bars) :
            LET run == Runs(Consumed)[i]
                t == run[1].time
                offset == OffsetMs(bars[i].dateTime)
            IN  /\ offset = BucketIndex(run[1]) * BucketWidth
                /\ offset = t - (t % BucketWidth)
                /\ offset % BucketWidth = 0
                /\ \A k \in 1..Len(run) :
                      /\ offset <= run[k].time
                      /\ run[k].time < offset + BucketWidth

\* A bar for a day bucket that holds two ticks at different times, neither of
\* them at the start of the bucket.
C15_Witness ==
    /\ InBucketed
    /\ args.frequency = DAY
    /\ Len(bars) >= 1
    /\ OffsetMs(bars[1].dateTime) = 0
    /\ Len(Runs(Consumed)[1]) = 2
    /\ Runs(Consumed)[1][1].time # Runs(Consumed)[1][2].time
    /\ Runs(Consumed)[1][1].time # 0

BarIsSynthetic(b) == b.volume = 10000 /\ b.adjClose = <<>>

\* C16: every bar of either loop, emitted or registered, has volume 10000 and
\* no adjusted close, and so has the accumulator whenever a bucket is open.
C16_VolumeAndAdjClose ==
    /\ \A i \in 1..Len(bars) : BarIsSynthetic(bars[i])
    /\ \A n \in InstrumentInputs :
          \A i \in 1..Len(registered[n]) : BarIsSynthetic(registered[n][i])
    /\ (pc = "bucket" /\ lastBarNum # None) => BarIsSynthetic(lastBar)

\* A bar emitted from a bucket of two ticks, in a second call, the first call
\* having registered bars.
C16_Witness ==
    /\ InBucketed
    /\ calls = 2
    /\ registered[args.instrument] # <<>>
    /\ \E i \in 1..Len(bars) : Len(Runs(Consumed)[i]) >= 2

\* The ticks ts with every ask replaced by zero.
WithoutAsk(ts) == [i \in 1..Len(ts) |-> [ts[i] EXCEPT !.ask = Price(0)]]

\* C14: the ask never reaches a bar: at every frequency the bars are those of
\* the same ticks with their asks blanked, so tick sequences that agree on
\* every time and bid give the same bars; at TRADE two ticks of one time and
\* bid give equal bars whatever their asks.
C14_AskNeverUsed ==
    pc \in {"trade", "bucket", "returned"} =>
        /\ bars = FreshPass(WithoutAsk(Consumed), args.date, args.frequency)
        /\ args.frequency = TRADE =>
              \A i, j \in 1..Len(bars) :
                  (ticks[i].time = ticks[j].time /\ ticks[i].bid = ticks[j].bid)
                      => bars[i] = bars[j]

\* A bucketed pass has emitted a bar for a bucket holding two ticks of one
\* time and bid and different asks.
C14_Witness ==
    /\ InBucketed
    /\ \E i \in 1..Len(bars) :
          LET run == Runs(Consumed)[i]
          IN  /\ Len(run) = 2
              /\ run[1].time = run[2].time
              /\ run[1].bid = run[2].bid
              /\ run[1].ask # run[2].ask

\* The call was given one of the nine frequencies and a date strptime parses.
EnumeratedCall ==
    args.frequency \in SupportedFrequencies /\ args.date.valid

\* The loop step consumes a tick whose bucket lies before the open bucket.
BackwardTickStep ==
    /\ pc = "bucket"
    /\ pc' = "bucket"
    /\ tickIdx' = tickIdx + 1
    /\ lastBarNum # None
    /\ args.frequency > 0
    /\ BucketIndex(ticks[tickIdx + 1]) < lastBarNum[1]

\* C17: with an enumerated frequency the aggregation loops never raise and
\* end: while ticks are left the next iteration can run, every iteration
\* consumes one tick, and after the last one the pass returns; this whatever
\* the order of the ticks.  A tick whose bucket lies before the open one
\* flushes the open bucket to the end of the bars, which are otherwise left as
\* they are, and opens a bucket with an earlier start.
C17_AggregationNeverRaises ==
    /\ [](EnumeratedCall => ~(pc = "raised" /\ DecodeReturned))
    /\ []((EnumeratedCall /\ pc \in {"trade", "bucket"}) =>
            /\ tickIdx <= Len(ticks)
            /\ tickIdx < Len(ticks) => ENABLED (TradeStep \/ BucketStep)
            /\ tickIdx = Len(ticks) => ENABLED Register)
    /\ [][(pc \in {"trade", "bucket"}) =>
            \/ pc' = pc /\ tickIdx' = tickIdx + 1 /\ ticks' = ticks
            \/ pc' \in {"returned", "raised"}
         ]_vars
    /\ [][BackwardTickStep =>
            /\ Len(bars') = Len(bars) + 1
            /\ SubSeq(bars', 1, Len(bars)) = bars
            /\ bars'[Len(bars')].dateTime = lastBar.dateTime
            /\ bars'[Len(bars')].close = lastBar.curr
            /\ lastBarNum' = Some(BucketIndex(ticks[tickIdx + 1]))
            /\ DateTimeLT(lastBar'.dateTime, lastBar.dateTime)
         ]_vars

\* A returned pass whose second bar starts before its first.
C17_Witness ==
    /\ InBucketed
    /\ pc = "returned"
    /\ args.frequency \in SupportedFrequencies
    /\ Len(bars) = 2
    /\ DateTimeLT(bars[2].dateTime, bars[1].dateTime)

\* The step consumes a tick of the bucketed loop while a bucket is open, and
\* the tick belongs to another bucket.
TickLeavesOpenBucket ==
    /\ args.frequency > 0
    /\ pc' = "bucket"
    /\ tickIdx' = tickIdx + 1
    /\ tickIdx >= 1
    /\ lastBarNum # None
    /\ BucketIndex(ticks[tickIdx + 1]) # lastBarNum[1]

\* C18: in the bucketed loop every step leaves the bars emitted so far in
\* place and adds at most one; it adds one only when it consumes a tick, not
\* the first, whose bucket index differs from that of the open bucket.  So the
\* bars after any prefix of the ticks are a prefix of the bars after all.
C18_AppendOnlyTickDriven ==
    [][(pc = "bucket") =>
          /\ Len(bars') >= Len(bars)
          /\ Len(bars') <= Len(bars) + 1
          /\ SubSeq(bars', 1, Len(bars)) = bars
          /\ bars' # bars => TickLeavesOpenBucket
      ]_vars

\* Three ticks consumed, the second in the bucket of the first and emitting
\* nothing, the third in another bucket and emitting one bar.
C18_Witness ==
    /\ InBucketed
    /\ pc = "bucket"
    /\ tickIdx = 3
    /\ Len(bars) = 1
    /\ Len(Runs(Consumed)[1]) = 2

\* The integer a decoded price was divided from.
Scaled(p) == p.whole * 100000 + p.frac

\* C19: for every whole 20 byte record the tick's time is the big-endian
\* signed integer of bytes 0-3, its ask that of bytes 4-7 and its bid that of
\* bytes 8-11, each divided by 100000; bytes 12-19 play no part: the record
\* with those bytes zeroed decodes to the same tick.
C19_RecordLayout ==
    \A i \in 1..Len(ticks) :
        20 * i <= Len(args.data) =>
            LET r == FileRecord(i)
            IN  /\ PackInt(ticks[i].time) = SubSeq(r, 1, 4)
                /\ ticks[i].time < 0 <=> r[1] >= 128
                /\ PackInt(Scaled(ticks[i].ask)) = SubSeq(r, 5, 8)
                /\ PackInt(Scaled(ticks[i].bid)) = SubSeq(r, 9, 12)
                /\ ticks[i].ask.frac \in 0..99999
                /\ ticks[i].bid.frac \in 0..99999
                /\ ticks[i] = UnpackTick(SubSeq(r, 1, 12) \o Unknown0)

\* A tick with a negative time, and a tick decoded from a record whose last
\* eight bytes are not zero.
C19_Witness ==
    /\ DecodeReturned
    /\ \E i \in 1..Len(ticks) : ticks[i].time < 0
    /\ \E i \in 1..Len(ticks) :
          /\ 20 * i <= Len(args.data)
          /\ SubSeq(FileRecord(i), 13, 20) = Unknown1
          /\ ticks[i].bid = Price(109000)

====
